---- MODULE Spec2Model ----
(***************************************************************************)
(* Model of src/main.py: a websocket broker in front of one child process. *)
(* Text is modelled as sequences of one-character strings, so that         *)
(* strip(), split(), lower() and int() are computed, not assumed.          *)
(***************************************************************************)
EXTENDS Integers, Sequences, FiniteSets, TLC

----------------------------------------------------------------------------
(* Bounds of the exploration.                                              *)

\* number of client connections (websocket handles) that may be accepted
NumClients == 2
\* number of environment events in a run: inbound frames, lines written by
\* the child, stream closes, child exit, client closes and stalls
MaxEvents == 2
\* a batch longer than this is explored as the first event and on its own
MaxOverlap == 4
\* number of argument tokens of a message handed to parse_command on its own
MaxArgs == 2

Clients == 1..NumClients
Streams == {"OUT", "ERR"}

----------------------------------------------------------------------------
(* Text helpers: Python str methods on sequences of characters.            *)

Whitespace == {" ", "\t", "\n"}
Digits == <<"0", "1", "2", "3", "4", "5", "6", "7", "8", "9">>
Upper == <<"A", "B", "C", "H", "I", "K", "L", "O", "S">>
LowerOf == <<"a", "b", "c", "h", "i", "k", "l", "o", "s">>

IsDigit(ch) == \E d \in 1..10 : Digits[d] = ch
DigitVal(ch) == (CHOOSE d \in 1..10 : Digits[d] = ch) - 1

\* str.lower() on one character
LowerChar(ch) ==
    IF \E u \in 1..Len(Upper) : Upper[u] = ch
    THEN LowerOf[CHOOSE u \in 1..Len(Upper) : Upper[u] = ch]
    ELSE ch

\* str.lower()
Lower(s) == [i \in 1..Len(s) |-> LowerChar(s[i])]

RECURSIVE LStrip(_)
LStrip(s) ==
    IF s = <<>> THEN <<>>
    ELSE IF Head(s) \in Whitespace THEN LStrip(Tail(s)) ELSE s

RECURSIVE RStrip(_)
RStrip(s) ==
    IF s = <<>> THEN <<>>
    ELSE IF s[Len(s)] \in Whitespace THEN RStrip(SubSeq(s, 1, Len(s) - 1)) ELSE s

\* str.strip()
Strip(s) == RStrip(LStrip(s))

\* str.split(): tokens separated by runs of whitespace, no empty token
RECURSIVE SplitFrom(_, _, _)
SplitFrom(s, cur, acc) ==
    IF s = <<>>
    THEN IF cur = <<>> THEN acc ELSE Append(acc, cur)
    ELSE IF Head(s) \in Whitespace
         THEN SplitFrom(Tail(s), <<>>, IF cur = <<>> THEN acc ELSE Append(acc, cur))
         ELSE SplitFrom(Tail(s), Append(cur, Head(s)), acc)

Split(s) == SplitFrom(s, <<>>, <<>>)

\* message[1:]
DropFirst(s) == IF s = <<>> THEN <<>> ELSE Tail(s)

\* int(token) accepts an optional sign followed by digit groups joined by
\* single underscores
RECURSIVE IsDigitGroups(_, _)
IsDigitGroups(s, prevDigit) ==
    IF s = <<>> THEN prevDigit
    ELSE IF IsDigit(Head(s)) THEN IsDigitGroups(Tail(s), TRUE)
    ELSE IF Head(s) = "_" /\ prevDigit THEN IsDigitGroups(Tail(s), FALSE)
    ELSE FALSE

Unsigned(tok) == IF tok # <<>> /\ Head(tok) \in {"+", "-"} THEN Tail(tok) ELSE tok

IsIntToken(tok) == IsDigitGroups(Unsigned(tok), FALSE)

RECURSIVE DigitsValue(_, _)
DigitsValue(s, acc) ==
    IF s = <<>> THEN acc
    ELSE IF Head(s) = "_" THEN DigitsValue(Tail(s), acc)
    ELSE DigitsValue(Tail(s), 10 * acc + DigitVal(Head(s)))

\* int(token), defined when IsIntToken(token)
IntOf(tok) ==
    IF Head(tok) = "-" THEN 0 - DigitsValue(Unsigned(tok), 0)
    ELSE DigitsValue(Unsigned(tok), 0)

----------------------------------------------------------------------------
(* Program constants (MinecraftServer.__init__) and the command layer.     *)

MAX_CREEPERS == 100
DEFAULT_CREEPERS == 4

Tok_name == <<"-", "-", "n", "a", "m", "e">>
W_creeper == <<"c", "r", "e", "e", "p", "e", "r">>
W_jack == <<"j", "a", "c", "k">>
W_godsend == <<"g", "o", "d", "s", "e", "n", "d">>
W_chaos == <<"c", "h", "a", "o", "s">>
W_kill == <<"k", "i", "l", "l">>

\* the argument loop of parse_command: st = [i, count, name, ok]
RECURSIVE ParseArgs(_, _, _, _)
ParseArgs(parts, i, count, name) ==
    IF i > Len(parts)
    THEN [ok |-> TRUE, count |-> count, name |-> name]
    ELSE IF parts[i] = Tok_name /\ i + 1 <= Len(parts)
         THEN ParseArgs(parts, i + 2, count, <<parts[i + 1]>>)
         ELSE IF IsIntToken(parts[i])
              THEN ParseArgs(parts, i + 1, <<IntOf(parts[i])>>, name)
              ELSE [ok |-> FALSE, count |-> count, name |-> name]

\* parse_command(message): count and name are sequences of length 0 (None)
\* or 1; every failure is re-raised as ValueError("Invalid command format")
parse_command(message) ==
    LET parts == Split(Strip(DropFirst(message)))
    IN  IF parts = <<>>
        THEN [ok |-> FALSE, command |-> <<>>, count |-> <<>>, name |-> <<>>,
              err |-> "Invalid command format"]
        ELSE LET args == ParseArgs(parts, 2, <<>>, <<>>)
             IN  IF args.ok
                 THEN [ok |-> TRUE, command |-> Lower(parts[1]),
                       count |-> args.count, name |-> args.name, err |-> ""]
                 ELSE [ok |-> FALSE, command |-> <<>>, count |-> <<>>,
                       name |-> <<>>, err |-> "Invalid command format"]

\* a loop over range(1, n): the first point is left out
get_circle_points_open(n) == [i \in 1..(n - 1) |-> <<i, n>>]

\* get_circle_points(n): point i of n lies at angle 90 - i*(360/n) degrees;
\* a point is kept as that angle <<i, n>> (the rounded coordinates are a
\* function of it).  Defined for n >= 1; n < 1 raises ValueError.
get_circle_points(n) == [i \in 1..n |-> <<i - 1, n>>]

\* if n < 1: raise ValueError("Number of points must be positive")
PointsRaise(n) == n < 1

Instr(op, pt, nametag) == [op |-> op, pt |-> pt, tag |-> nametag]

\* name_tag = ... if name else ""
NameTag(name) == IF name # <<>> /\ name[1] # <<>> THEN name[1] ELSE <<>>

GodsendItems ==
    <<"give netherite_helmet", "give netherite_chestplate",
      "give netherite_leggings", "give netherite_boots",
      "give netherite_sword", "give netherite_axe",
      "give netherite_pickaxe", "give netherite_shovel",
      "give netherite_hoe", "give bow infinity", "give bow mending",
      "give arrow 64">>

Reply(kind, text, cmd, arg, n) ==
    [kind |-> kind, text |-> text, cmd |-> cmd, arg |-> arg, n |-> n]

ErrorReply(text) == Reply("error", text, <<>>, <<>>, <<>>)
AckReply(cmd) == Reply("ack", "Command sent", <<cmd>>, <<>>, <<>>)

\* a limit check that never rejects
OverLimit_never(count) == FALSE

\* a limit check that also rejects the maximum itself
OverLimit_ge(count) == count >= MAX_CREEPERS

\* count > self.MAX_CREEPERS
OverLimit(count) == count > MAX_CREEPERS

\* the dispatch of handle_websocket on a parsed command: either the batch
\* handed to send_command or the error sent to the client
Expand(p) ==
    IF p.command = W_creeper
    THEN LET count == IF p.count = <<>> THEN DEFAULT_CREEPERS ELSE p.count[1]
         IN  IF OverLimit(count)
             THEN [tag |-> "error", commands |-> <<>>, at |-> "try",
                   reply |-> Reply("error", "Maximum creepers allowed",
                                   <<>>, <<>>, <<MAX_CREEPERS>>)]
             ELSE IF PointsRaise(count)
             THEN [tag |-> "error", commands |-> <<>>, at |-> "handler",
                   reply |-> ErrorReply("Number of points must be positive")]
             ELSE LET points == get_circle_points(count)
                  IN  [tag |-> "batch", at |-> "try",
                       commands |-> [i \in 1..Len(points) |->
                           Instr("summon creeper", points[i], NameTag(p.name))],
                       reply |-> ErrorReply("")]
    ELSE IF p.command = W_jack
    THEN [tag |-> "batch", at |-> "try",
          commands |-> <<Instr("summon chicken", <<>>, NameTag(p.name)),
                         Instr("give water_bucket", <<>>, <<>>),
                         Instr("give flint_and_steel", <<>>, <<>>),
                         Instr("give crafting_table", <<>>, <<>>)>>,
          reply |-> ErrorReply("")]
    ELSE IF p.command = W_godsend
    THEN [tag |-> "batch", at |-> "try",
          commands |-> [i \in 1..Len(GodsendItems) |->
                           Instr(GodsendItems[i], <<>>, <<>>)],
          reply |-> ErrorReply("")]
    ELSE IF p.command = W_chaos
    THEN [tag |-> "batch", at |-> "try",
          commands |-> <<Instr("summon wither", <<>>, NameTag(p.name)),
                         Instr("summon ender_dragon", <<>>, NameTag(p.name))>>,
          reply |-> ErrorReply("")]
    ELSE IF p.command = W_kill
    THEN [tag |-> "batch", at |-> "try",
          commands |-> <<Instr("kill @e[type=!player]", <<>>, <<>>)>>,
          reply |-> ErrorReply("")]
    ELSE [tag |-> "error", commands |-> <<>>, at |-> "try",
          reply |-> Reply("error", "Unknown command", <<>>, p.command, <<>>)]

\* message.startswith('#')
StartsWithSentinel(message) == message # <<>> /\ Head(message) = "#"

\* one iteration of the receive loop up to its first await, for a text
\* message: the batch for send_command, or the error reply; "at" says
\* whether the reply is sent inside the try block of lines 152-238 ("try")
\* or outside it, lines 240 and 245 ("handler")
Interpret(message) ==
    IF StartsWithSentinel(message)
    THEN LET p == parse_command(message)
         IN  IF p.ok THEN Expand(p)
             ELSE [tag |-> "error", commands |-> <<>>, at |-> "handler",
                   reply |-> ErrorReply(p.err)]
    ELSE [tag |-> "error", commands |-> <<>>, at |-> "handler",
          reply |-> ErrorReply("Commands must start with #")]

----------------------------------------------------------------------------
(* Inputs.                                                                 *)

Sp == <<" ">>
M_hello == <<"h", "e", "l", "l", "o">>
M_badarg == <<"#">> \o W_creeper \o Sp \o <<"a", "b", "c">>
M_bogus == <<"#", "b", "o", "g", "u", "s">>
M_over == <<"#">> \o W_creeper \o Sp \o <<"1", "0", "1">>
M_max == <<"#">> \o W_creeper \o Sp \o <<"1", "0", "0">>
M_default == <<"#">> \o W_creeper
M_zero == <<"#">> \o W_creeper \o Sp \o <<"0">>
M_chaos == <<"#", "C", "h", "a", "o", "s">> \o Sp \o Tok_name \o Sp \o <<"B", "o", "b">>

TextMessages ==
    {M_hello, M_badarg, M_bogus, M_over, M_max, M_default, M_zero, M_chaos}

\* inbound websocket frames: text (str) or binary (bytes)
Frames ==
    [binary : {FALSE}, data : TextMessages] \cup
    {[binary |-> TRUE, data |-> <<"#">>]}

NoFrame == [binary |-> FALSE, data |-> <<>>]

\* argument tokens of the messages handed to parse_command on its own
T_abc == <<"a", "b", "c">>
T_neg == <<"-", "1">>
T_zero == <<"0">>
T_one == <<"1">>
T_four == <<"4">>
T_max == <<"1", "0", "0">>
T_over == <<"1", "0", "1">>
T_under == <<"1", "_", "0">>
T_plus == <<"+", "5">>
T_Bob == <<"B", "o", "b">>
ArgTokens ==
    {T_abc, T_neg, T_zero, T_one, T_four, T_max, T_over, T_under, T_plus,
     T_Bob, Tok_name}

\* first tokens: none, known command words in either case, an unknown word
CommandWords ==
    {<<>>, W_creeper, W_jack, <<"C", "h", "a", "o", "s">>,
     <<"b", "o", "g", "u", "s">>}

\* sequences of at most n argument tokens
ArgLists(n) == UNION {[1..k -> ArgTokens] : k \in 0..n}

\* the tokens joined by single spaces
RECURSIVE JoinArgs(_)
JoinArgs(args) ==
    IF args = <<>> THEN <<>> ELSE Sp \o Head(args) \o JoinArgs(Tail(args))

\* the message "#<word> <arg> <arg> ..."
MessageOf(word, args) == <<"#">> \o word \o JoinArgs(args)

CallMessages ==
    {MessageOf(w, a) : w \in CommandWords, a \in ArgLists(MaxArgs)}

\* a call of one function of the program on its own
Call(fn, msg, set, handle) ==
    [fn |-> fn, message |-> msg, set |-> set, handle |-> handle]

NoCall == Call("none", <<>>, {}, 0)

Calls ==
    {Call("handle_message", m, {}, 0) : m \in CallMessages} \cup
    {Call(f, <<>>, S, h) : f \in {"add", "remove"}, S \in SUBSET Clients,
                          h \in Clients}

NoParsed ==
    [ok |-> FALSE, command |-> <<>>, count |-> <<>>, name |-> <<>>, err |-> ""]

NoOutcome ==
    [tag |-> "none", commands |-> <<>>, at |-> "", reply |-> ErrorReply("")]

NoReturn ==
    [stage |-> "none", parsed |-> NoParsed, outcome |-> NoOutcome, set |-> {},
     raised |-> ""]

\* raw lines returned by stream.readline(); Undecodable makes it raise
BlankLine == <<" ", "\n">>
TextLine == <<" ", "o", "k", "\n">>
Undecodable == <<"?">>
RawLines == {BlankLine, TextLine, Undecodable}

\* f"[{prefix}] {line}"
Format(prefix, text) == <<"[", prefix, "]", " ">> \o text

----------------------------------------------------------------------------
(* State.                                                                  *)

VARIABLES
    mainpc,             \* position of run(): "init", "started", "serving", "exit"
    process,            \* self.process: "none", "running", "exited"
    eof,                \* eof[s]: the child has closed stream s
    connected_clients,  \* self.connected_clients
    conn,               \* conn[c]: "new", "open", "closed"
    stalled,            \* stalled[c]: c has stopped reading, sends to it hang
    hpc,                \* handle_websocket(c): "idle", "recv", "ack",
                        \* "reply_try", "reply_handler", "done"
    frame,              \* frame[c]: the inbound message being handled
    commands,           \* commands[c]: the batch of the running send_command
    next,               \* next[c]: index of the next instruction to write
    batches,            \* batches[c]: number of batches c has handed over
    stdin,              \* lines written to the child's stdin, in order
    flushed,            \* number of lines of stdin flushed to the child
    replies,            \* replies[c]: messages the handler passed to c.send
    events,             \* environment events so far
    rpc,                \* read_process_output(s): "idle", "reading",
                        \* "gather", "ended", "error"
    nwritten,           \* nwritten[s]: lines the child has written to s
    nread,              \* nread[s]: lines read from s
    line,               \* line[s]: the raw line last read from s
    message,            \* message[s]: the message being broadcast
    snap,               \* snap[s]: clients the running broadcast sends to
    pending,            \* pending[s]: sends of the gather not yet finished
    failed,             \* failed[s]: sends of the gather that raised
    relayed,            \* relayed[c]: relay messages delivered to c
    call,               \* a call of one function on its own: its arguments
    ret                 \* what that call has returned or raised so far

hvars == <<hpc, frame, commands, next, batches, stdin, flushed, replies>>
rvars == <<rpc, nread, line, message, snap, pending, failed, relayed>>
cvars == <<conn, stalled>>
pvars == <<mainpc, process, eof, nwritten>>
evars == <<events>>
fvars == <<call, ret>>
vars == <<mainpc, process, eof, connected_clients, conn, stalled, hpc,
          frame, commands, next, batches, stdin, flushed, replies, events, rpc,
          nwritten, nread, line, message, snap, pending, failed, relayed,
          call, ret>>

\* the server object after __init__, before run()
Constructed ==
    /\ mainpc = "init"
    /\ process = "none"
    /\ eof = [s \in Streams |-> FALSE]
    /\ connected_clients = {}
    /\ conn = [c \in Clients |-> "new"]
    /\ stalled = [c \in Clients |-> FALSE]
    /\ hpc = [c \in Clients |-> "idle"]
    /\ frame = [c \in Clients |-> NoFrame]
    /\ commands = [c \in Clients |-> <<>>]
    /\ next = [c \in Clients |-> 1]
    /\ batches = [c \in Clients |-> 0]
    /\ stdin = <<>>
    /\ flushed = 0
    /\ replies = [c \in Clients |-> <<>>]
    /\ events = 0
    /\ rpc = [s \in Streams |-> "idle"]
    /\ nwritten = [s \in Streams |-> 0]
    /\ nread = [s \in Streams |-> 0]
    /\ line = [s \in Streams |-> <<>>]
    /\ message = [s \in Streams |-> <<>>]
    /\ snap = [s \in Streams |-> {}]
    /\ pending = [s \in Streams |-> {}]
    /\ failed = [s \in Streams |-> {}]
    /\ relayed = [c \in Clients |-> <<>>]

Init ==
    /\ Constructed
    /\ call = NoCall
    /\ ret = NoReturn

----------------------------------------------------------------------------
(* run(): start_minecraft_server, start_websocket_server.                  *)

\* Popen succeeds and both relay tasks are created, or it raises and the
\* program exits (sys.exit(1))
StartMinecraftServer ==
    /\ mainpc = "init"
    /\ \/ /\ process' = "running"
          /\ rpc' = [s \in Streams |-> "reading"]
          /\ mainpc' = "started"
       \/ /\ mainpc' = "exit"
          /\ UNCHANGED <<process, rpc>>
    /\ UNCHANGED <<eof, nwritten, connected_clients, cvars, hvars, evars, nread,
                   line, message, snap, pending, failed, relayed>>
    /\ UNCHANGED fvars

StartWebsocketServer ==
    /\ mainpc = "started"
    /\ mainpc' = "serving"
    /\ UNCHANGED <<process, eof, nwritten, connected_clients, cvars, hvars,
                   evars, rvars>>
    /\ UNCHANGED fvars

----------------------------------------------------------------------------
(* The child process and the clients (environment).                        *)

InFlight(d) == hpc[d] = "ack"

\* no long batch is being written
Quiet == \A d \in Clients : InFlight(d) => Len(commands[d]) <= MaxOverlap

\* exploration bound: one more environment event
Event == events < MaxEvents /\ Quiet /\ events' = events + 1

\* the child writes one more line to stream s
ChildWrite(s) ==
    /\ process = "running"
    /\ ~eof[s]
    /\ Event
    /\ nwritten' = [nwritten EXCEPT ![s] = @ + 1]
    /\ UNCHANGED <<mainpc, process, eof, connected_clients, cvars, hvars,
                   rvars>>
    /\ UNCHANGED fvars

\* the child closes stream s and keeps running
ChildClose(s) ==
    /\ process = "running"
    /\ ~eof[s]
    /\ Event
    /\ eof' = [eof EXCEPT ![s] = TRUE]
    /\ UNCHANGED <<mainpc, process, nwritten, connected_clients, cvars,
                   hvars, rvars>>
    /\ UNCHANGED fvars

\* the child exits: its streams reach EOF and its stdin pipe breaks
ProcessExit ==
    /\ process = "running"
    /\ Event
    /\ process' = "exited"
    /\ eof' = [s \in Streams |-> TRUE]
    /\ UNCHANGED <<mainpc, nwritten, connected_clients, cvars, hvars, rvars>>
    /\ UNCHANGED fvars

\* the peer closes connection c, with or without a closing handshake
ClientClose(c) ==
    /\ conn[c] = "open"
    /\ Event
    /\ conn' = [conn EXCEPT ![c] = "closed"]
    /\ UNCHANGED <<stalled, pvars, connected_clients, hvars, rvars>>
    /\ UNCHANGED fvars

\* the peer stops reading: from now on a send to c does not complete
ClientStall(c) ==
    /\ conn[c] = "open"
    /\ ~stalled[c]
    /\ Event
    /\ stalled' = [stalled EXCEPT ![c] = TRUE]
    /\ UNCHANGED <<conn, pvars, connected_clients, hvars, rvars>>
    /\ UNCHANGED fvars

IsClosed(c) == conn[c] = "closed"
CanSend(c) == conn[c] = "open" /\ ~stalled[c]

----------------------------------------------------------------------------
(* handle_websocket and send_command.                                      *)

\* self.connected_clients.add(websocket)
Register(set, c) == set \cup {c}

\* set.remove(x) raises KeyError when x is not a member
RemoveRaises(set, c) == c \notin set

\* an exit path that leaves the handle registered
Deregister_keep(set, c) == set

\* an exit path that empties the registry
Deregister_clear(set, c) == {}

\* self.connected_clients.remove(websocket)
Deregister(set, c) == set \ {c}

\* the server accepts the next connection and starts its handler, which
\* registers the handle and waits for the first message
Connect(c) ==
    /\ mainpc = "serving"
    /\ conn[c] = "new"
    /\ \A d \in Clients : d < c => conn[d] # "new"
    /\ conn' = [conn EXCEPT ![c] = "open"]
    /\ connected_clients' = Register(connected_clients, c)
    /\ hpc' = [hpc EXCEPT ![c] = "recv"]
    /\ UNCHANGED <<stalled, pvars, frame, commands, next, batches, stdin,
                   flushed, replies, evars, rvars>>
    /\ UNCHANGED fvars

\* the line f"{cmd}\n" written by batch b of client c for instruction i
StdinLine(c, b, i, cmd) ==
    [text |-> cmd, nl |-> "\n", by |-> c, batch |-> b, idx |-> i]

\* a write that puts the new line in front of the earlier ones
Write_front(buf, ln) == <<ln>> \o buf

\* self.process.stdin.write(...)
Write(buf, ln) == Append(buf, ln)

\* self.process.stdin.flush(): everything written so far is flushed
Flush(buf) == Len(buf)

\* `for cmd in commands`: the index after i
NextIndex(i) == i + 1

\* `if cmd`: only non-empty commands are sent
NonEmpty(cmds) == SelectSeq(cmds, LAMBDA x : x.op # "")

\* self.process and self.process.stdin
ProcessAvailable == process # "none"

\* a failure reported twice
OnWriteFailure_twice(cmd) ==
    <<ErrorReply("Failed to send command"),
      ErrorReply("Failed to send command")>>

\* the acknowledgment sent before the write is attempted
OnWriteFailure_acked(cmd) ==
    <<AckReply(cmd), ErrorReply("Failed to send command")>>

\* the sends made when the write of cmd raises (BrokenPipeError)
OnWriteFailure(cmd) == <<ErrorReply("Failed to send command")>>

\* one iteration of the loop of send_command, for instruction i of the
\* batch cmds of client c: write, flush and send the acknowledgment; a write
\* to the pipe of an exited child raises, which ends the batch
WriteStep(c, cmds, i) ==
    IF process = "running"
    THEN /\ stdin' = Write(stdin, StdinLine(c, batches'[c], i, cmds[i]))
         /\ flushed' = Flush(stdin')
         /\ replies' = [replies EXCEPT ![c] = Append(@, AckReply(cmds[i]))]
         /\ hpc' = [hpc EXCEPT ![c] = "ack"]
         /\ commands' = [commands EXCEPT ![c] = cmds]
         /\ next' = [next EXCEPT ![c] = NextIndex(i)]
    ELSE /\ replies' = [replies EXCEPT ![c] = @ \o OnWriteFailure(cmds[i])]
         /\ hpc' = [hpc EXCEPT ![c] = "reply_try"]
         /\ commands' = [commands EXCEPT ![c] = <<>>]
         /\ next' = [next EXCEPT ![c] = 1]
         /\ UNCHANGED <<stdin, flushed>>

\* exploration bound: a long batch is the first event of a run
BatchAllowed(c, cmds) == Len(cmds) <= MaxOverlap \/ events = 0

\* send_command(websocket, cmds) up to its first await
SendCommand(c, cmds) ==
    IF ~ProcessAvailable
    THEN /\ replies' = [replies EXCEPT
                           ![c] = Append(@, ErrorReply("Minecraft server not running"))]
         /\ hpc' = [hpc EXCEPT ![c] = "reply_try"]
         /\ UNCHANGED <<commands, next, batches, stdin, flushed>>
    ELSE /\ batches' = [batches EXCEPT ![c] = @ + 1]
         /\ IF NonEmpty(cmds) = <<>>
            THEN /\ hpc' = [hpc EXCEPT ![c] = "recv"]
                 /\ UNCHANGED <<commands, next, stdin, flushed, replies>>
            ELSE WriteStep(c, NonEmpty(cmds), 1)

\* the exit of handle_websocket: the except clauses log, finally deregisters
ExitHandler(c) ==
    /\ hpc' = [hpc EXCEPT ![c] = "done"]
    /\ connected_clients' = Deregister(connected_clients, c)
    /\ frame' = [frame EXCEPT ![c] = NoFrame]
    /\ commands' = [commands EXCEPT ![c] = <<>>]
    /\ next' = [next EXCEPT ![c] = 1]

\* `async for message in websocket` yields the next message f, which is
\* handled up to the first await
Receive(c, f) ==
    /\ hpc[c] = "recv"
    /\ conn[c] = "open"
    /\ Event
    /\ IF f.binary
       THEN \* bytes.startswith(str) raises TypeError: line 248
            /\ ExitHandler(c)
            /\ UNCHANGED <<batches, stdin, flushed, replies>>
       ELSE LET r == Interpret(f.data)
            IN  /\ frame' = [frame EXCEPT ![c] = f]
                /\ UNCHANGED connected_clients
                /\ IF r.tag = "error"
                   THEN /\ replies' = [replies EXCEPT ![c] = Append(@, r.reply)]
                        /\ hpc' = [hpc EXCEPT ![c] =
                                      IF r.at = "try" THEN "reply_try"
                                      ELSE "reply_handler"]
                        /\ UNCHANGED <<commands, next, batches, stdin, flushed>>
                   ELSE /\ BatchAllowed(c, r.commands)
                        /\ SendCommand(c, r.commands)
    /\ UNCHANGED <<pvars, cvars, rvars>>
    /\ UNCHANGED fvars

\* the sends attempted while ConnectionClosed propagates out of a send made
\* at position pos: the handlers of lines 106 and 241 each send an error
UnwindSends(pos) ==
    IF pos = "ack"
    THEN <<ErrorReply("Failed to send command"),
           ErrorReply("An unexpected error occurred")>>
    ELSE IF pos = "reply_try"
    THEN <<ErrorReply("An unexpected error occurred")>>
    ELSE <<>>

\* the awaited websocket.send of the handler returns or raises
SendReturn(c) ==
    /\ hpc[c] \in {"ack", "reply_try", "reply_handler"}
    /\ \/ /\ CanSend(c)
          /\ UNCHANGED <<connected_clients, batches>>
          /\ IF hpc[c] = "ack" /\ next[c] <= Len(commands[c])
             THEN /\ WriteStep(c, commands[c], next[c])
                  /\ UNCHANGED frame
             ELSE /\ hpc' = [hpc EXCEPT ![c] = "recv"]
                  /\ frame' = [frame EXCEPT ![c] = NoFrame]
                  /\ commands' = [commands EXCEPT ![c] = <<>>]
                  /\ next' = [next EXCEPT ![c] = 1]
                  /\ UNCHANGED <<stdin, flushed, replies>>
       \/ /\ IsClosed(c)
          /\ replies' = [replies EXCEPT ![c] = @ \o UnwindSends(hpc[c])]
          /\ ExitHandler(c)
          /\ UNCHANGED <<batches, stdin, flushed>>
    /\ UNCHANGED <<evars, pvars, cvars, rvars>>
    /\ UNCHANGED fvars

\* the receive loop finds the connection closed: the iteration ends or
\* raises ConnectionClosed
LoopExit(c) ==
    /\ hpc[c] = "recv"
    /\ IsClosed(c)
    /\ ExitHandler(c)
    /\ UNCHANGED <<batches, stdin, flushed, replies, evars, pvars, cvars,
                   rvars>>
    /\ UNCHANGED fvars

----------------------------------------------------------------------------
(* read_process_output and broadcast.                                      *)

Prefix(s) == s

\* a broadcast that only reaches the clients that have issued a command
Recipients_senders == {c \in connected_clients : batches[c] > 0}

\* the clients broadcast sends to: one send per member of connected_clients
Recipients == connected_clients

\* gather without return_exceptions: the first exception ends the wait
AfterFailure_abandon(waiting, c) == {}

\* gather(..., return_exceptions=True): a send that raised is collected and
\* the other sends stay awaited
AfterFailure(waiting, c) == waiting \ {c}

\* the entry of relayed[c] for line k of stream s
Delivery(s, k, m) == [stream |-> s, k |-> k, msg |-> m]

\* a relay that reads on while its broadcast is awaited
ReadyToRead_eager(s) == rpc[s] \in {"reading", "gather"}

\* the relay of stream s is at readline: `await self.broadcast(message)` of
\* the line before has returned
ReadyToRead(s) == rpc[s] = "reading"

\* a break that ends every relay task
OnEOF_all(r, s) == [t \in Streams |-> "ended"]

\* `if not line: break`: the task of stream s returns
OnEOF(r, s) == [r EXCEPT ![s] = "ended"]

\* readline returns in the executor: EOF ends the task, an undecodable line
\* raises and ends it, a blank line is skipped, any other line is broadcast
ReadLine(s) ==
    /\ ReadyToRead(s)
    /\ \/ /\ nread[s] < nwritten[s]
          /\ nread' = [nread EXCEPT ![s] = @ + 1]
          /\ \E raw \in RawLines :
                IF raw = Undecodable
                THEN /\ rpc' = [rpc EXCEPT ![s] = "error"]
                     /\ UNCHANGED <<line, message, snap, pending, failed>>
                ELSE /\ line' = [line EXCEPT ![s] = raw]
                     /\ IF Strip(raw) = <<>> \/ Recipients = {}
                        THEN UNCHANGED <<rpc, message, snap, pending, failed>>
                        ELSE /\ rpc' = [rpc EXCEPT ![s] = "gather"]
                             /\ message' = [message EXCEPT
                                    ![s] = Format(Prefix(s), Strip(raw))]
                             /\ snap' = [snap EXCEPT ![s] = Recipients]
                             /\ pending' = [pending EXCEPT ![s] = Recipients]
                             /\ failed' = [failed EXCEPT ![s] = {}]
       \/ /\ nread[s] = nwritten[s]
          /\ eof[s]
          /\ rpc' = OnEOF(rpc, s)
          /\ UNCHANGED <<nread, line, message, snap, pending, failed>>
    /\ UNCHANGED <<relayed, evars, pvars, connected_clients, cvars, hvars>>
    /\ UNCHANGED fvars

\* a broadcast that drops the client whose send raised
OnSendFailure_evict(set, c) == set \ {c}

\* the registry after the send to c raised: gather keeps the exception as a
\* result and broadcast discards it
OnSendFailure(set, c) == set

\* one client.send(message) of the running gather completes or raises
BroadcastSend(s, c) ==
    /\ rpc[s] = "gather"
    /\ c \in pending[s]
    /\ \/ /\ CanSend(c)
          /\ relayed' = [relayed EXCEPT
                            ![c] = Append(@, Delivery(s, nread[s], message[s]))]
          /\ pending' = [pending EXCEPT ![s] = @ \ {c}]
          /\ UNCHANGED <<failed, connected_clients>>
       \/ /\ IsClosed(c)
          /\ pending' = [pending EXCEPT ![s] = AfterFailure(@, c)]
          /\ failed' = [failed EXCEPT ![s] = @ \cup {c}]
          /\ connected_clients' = OnSendFailure(connected_clients, c)
          /\ UNCHANGED relayed
    /\ UNCHANGED <<rpc, nread, line, message, snap, pvars, cvars, hvars, evars>>
    /\ UNCHANGED fvars

\* gather has collected every result: broadcast returns and the relay goes
\* back to readline
BroadcastReturn(s) ==
    /\ rpc[s] = "gather"
    /\ pending[s] = {}
    /\ rpc' = [rpc EXCEPT ![s] = "reading"]
    /\ line' = [line EXCEPT ![s] = <<>>]
    /\ message' = [message EXCEPT ![s] = <<>>]
    /\ snap' = [snap EXCEPT ![s] = {}]
    /\ failed' = [failed EXCEPT ![s] = {}]
    /\ UNCHANGED <<nread, pending, relayed, pvars, connected_clients, cvars,
                   hvars, evars>>
    /\ UNCHANGED fvars

----------------------------------------------------------------------------
(* Single calls: parse_command and the dispatch of handle_websocket on one  *)
(* message, connected_clients.add and connected_clients.remove on one set   *)
(* and handle.                                                              *)

svars == <<pvars, connected_clients, cvars, hvars, evars, rvars>>

\* command, count, name = self.parse_command(message)
CallParseCommand ==
    /\ call.fn = "handle_message"
    /\ ret.stage = "none"
    /\ StartsWithSentinel(call.message)
    /\ ret' = [ret EXCEPT !.stage = "parsed",
                          !.parsed = parse_command(call.message)]
    /\ UNCHANGED <<call, svars>>

\* the rest of the iteration: the batch or the error reply
CallDispatch ==
    /\ call.fn = "handle_message"
    /\ ret.stage = "parsed"
    /\ ret' = [ret EXCEPT !.stage = "dispatched",
                          !.outcome = Interpret(call.message)]
    /\ UNCHANGED <<call, svars>>

\* self.connected_clients.add(websocket)
CallAdd ==
    /\ call.fn = "add"
    /\ ret.stage = "none"
    /\ ret' = [ret EXCEPT !.stage = "returned",
                          !.set = Register(call.set, call.handle)]
    /\ UNCHANGED <<call, svars>>

\* self.connected_clients.remove(websocket)
CallRemove ==
    /\ call.fn = "remove"
    /\ ret.stage = "none"
    /\ IF RemoveRaises(call.set, call.handle)
       THEN ret' = [ret EXCEPT !.stage = "returned", !.set = call.set,
                               !.raised = "KeyError"]
       ELSE ret' = [ret EXCEPT !.stage = "returned",
                               !.set = Deregister(call.set, call.handle)]
    /\ UNCHANGED <<call, svars>>

FnInit ==
    /\ Constructed
    /\ call \in Calls
    /\ ret = NoReturn

FnNext ==
    \/ CallParseCommand
    \/ CallDispatch
    \/ CallAdd
    \/ CallRemove

FnSpec == FnInit /\ [][FnNext]_vars

----------------------------------------------------------------------------
(* Specifications.                                                         *)

Next ==
    \/ StartMinecraftServer
    \/ StartWebsocketServer
    \/ \E s \in Streams : ChildWrite(s)
    \/ \E s \in Streams : ChildClose(s)
    \/ ProcessExit
    \/ \E c \in Clients : Connect(c)
    \/ \E c \in Clients : ClientClose(c)
    \/ \E c \in Clients : ClientStall(c)
    \/ \E c \in Clients : \E f \in Frames : Receive(c, f)
    \/ \E c \in Clients : SendReturn(c)
    \/ \E c \in Clients : LoopExit(c)
    \/ \E s \in Streams : ReadLine(s)
    \/ \E s \in Streams : \E c \in Clients : BroadcastSend(s, c)
    \/ \E s \in Streams : BroadcastReturn(s)

Spec == Init /\ [][Next]_vars

\* the event loop runs every task that is ready: a handler whose send has
\* returned, a relay whose readline or gather has a result
FairSpec ==
    /\ Spec
    /\ \A c \in Clients : WF_vars(SendReturn(c)) /\ WF_vars(LoopExit(c))
    /\ \A s \in Streams : WF_vars(ReadLine(s)) /\ WF_vars(BroadcastReturn(s))
    /\ \A s \in Streams : \A c \in Clients : WF_vars(BroadcastSend(s, c))

TypeOK ==
    /\ mainpc \in {"init", "started", "serving", "exit"}
    /\ process \in {"none", "running", "exited"}
    /\ connected_clients \subseteq Clients
    /\ \A c \in Clients :
          /\ conn[c] \in {"new", "open", "closed"}
          /\ hpc[c] \in {"idle", "recv", "ack", "reply_try", "reply_handler",
                         "done"}
    /\ \A s \in Streams :
          /\ rpc[s] \in {"idle", "reading", "gather", "ended", "error"}
          /\ pending[s] \subseteq snap[s]
          /\ nread[s] <= nwritten[s]

----------------------------------------------------------------------------
(* Claims.                                                                 *)

SameBatch(a, b) == a.by = b.by /\ a.batch = b.batch

\* C1: the lines one batch writes to the child's stdin are contiguous: no
\* line of another batch lies between two lines of the same batch.
C1_BatchesContiguous ==
    \A i, j \in 1..Len(stdin) :
        i < j /\ SameBatch(stdin[i], stdin[j]) =>
            \A m \in i..j : SameBatch(stdin[i], stdin[m])

\* C2: the instructions of a batch reach stdin in the order of the batch and
\* each once: every write appends one line, the instruction that follows the
\* batch's previous line, terminated by a newline, and the line is flushed
\* before anything else is written.
C2_BatchInOrder ==
    /\ [](flushed = Len(stdin))
    /\ [][stdin' # stdin =>
            /\ Len(stdin') = Len(stdin) + 1
            /\ SubSeq(stdin', 1, Len(stdin)) = stdin
            /\ LET ln == stdin'[Len(stdin')]
                   c == ln.by
                   earlier == {i \in 1..Len(stdin) : SameBatch(stdin[i], ln)}
               IN  /\ ln.nl = "\n"
                   /\ ln.batch = batches'[c]
                   /\ ln.idx = Cardinality(earlier) + 1
                   /\ \A i \in earlier : stdin[i].idx < ln.idx
                   /\ ln.text = commands'[c][ln.idx]
                   /\ commands[c] # <<>> => commands'[c] = commands[c]]_vars

\* a batch of at least two instructions has been written completely
C2_Witness ==
    \E c \in Clients :
        /\ hpc[c] = "ack"
        /\ Len(commands[c]) >= 2
        /\ next[c] > Len(commands[c])
        /\ Cardinality({i \in 1..Len(stdin) :
                           stdin[i].by = c /\ stdin[i].batch = batches[c]})
              = Len(commands[c])

Copies(c, s) ==
    Cardinality({i \in 1..Len(relayed[c]) :
                    relayed[c][i] = Delivery(s, nread[s], message[s])})

\* C3: in a broadcast where the send to some client raised, every other
\* client of the broadcast has been sent exactly one copy of the message when
\* the broadcast completes, and the relay task goes on reading.
C3_FailureIsolated ==
    /\ [](\A s \in Streams :
            rpc[s] = "gather" =>
                \A c \in snap[s] :
                    Copies(c, s) = IF c \in pending[s] \cup failed[s] THEN 0 ELSE 1)
    /\ [][\A s \in Streams :
            rpc[s] = "gather" /\ rpc'[s] # "gather" =>
                rpc'[s] = "reading" /\ pending[s] = {}]_vars

\* a broadcast has completed in which one send raised and another succeeded
C3_Witness ==
    \E s \in Streams :
        /\ rpc[s] = "gather"
        /\ pending[s] = {}
        /\ failed[s] # {}
        /\ \E c \in snap[s] \ failed[s] : Copies(c, s) = 1


\* line k of stream s has been read and its broadcast, if any, has returned
Relayed(s, k) == nread[s] > k \/ (nread[s] = k /\ rpc[s] # "gather")

\* C4: a client whose send never completes does not block the publisher:
\* every line the child writes to a stream is eventually read and relayed,
\* the relay then being free for the next line (unless readline itself
\* raised and ended the relay).
C4_PublisherNotBlocked ==
    \A s \in Streams : \A k \in 1..MaxEvents :
        (nwritten[s] >= k) ~> (Relayed(s, k) \/ rpc[s] = "error")

\* the message for the text line " ok\n" read from stream s
Expected(s) == <<"[", s, "]", " ", "o", "k">>

\* C5: every non-blank line read from a stream is sent, as "[OUT] <line>" or
\* "[ERR] <line>" with the line stripped, to every client registered when it
\* is published, whether or not the client issued a command; a blank line is
\* not broadcast.
C5_RelayToAllRegistered ==
    /\ [](\A c \in Clients : \A i \in 1..Len(relayed[c]) :
             relayed[c][i].msg = Expected(relayed[c][i].stream))
    /\ [][\A s \in Streams :
            nread'[s] = nread[s] + 1 /\ rpc'[s] # "error" =>
                IF line'[s] = TextLine /\ connected_clients # {}
                THEN /\ rpc'[s] = "gather"
                     /\ message'[s] = Expected(s)
                     /\ snap'[s] = connected_clients
                     /\ pending'[s] = connected_clients
                ELSE /\ rpc'[s] = "reading"
                     /\ pending'[s] = {}
                     /\ relayed' = relayed]_vars
    /\ [][\A s \in Streams : \A c \in Clients :
            c \in pending[s] /\ c \notin pending'[s] /\ conn[c] = "open" =>
                relayed'[c] = Append(relayed[c],
                                     [stream |-> s, k |-> nread[s],
                                      msg |-> Expected(s)])]_vars

\* a client that has sent nothing has been delivered a relayed line
C5_Witness ==
    \E c \in Clients :
        /\ batches[c] = 0
        /\ replies[c] = <<>>
        /\ relayed[c] # <<>>

LoopRunning(c) == hpc[c] \in {"recv", "ack", "reply_try", "reply_handler"}

\* C6: a handle is in connected_clients exactly while its receive loop has
\* started and not exited; once the loop has ended the handle is removed.
C6_RegisteredIffLoopRunning ==
    \A c \in Clients : c \in connected_clients <=> LoopRunning(c)

\* a connection was closed, its loop has ended and its handle is removed
C6_Witness ==
    \E c \in Clients :
        hpc[c] = "done" /\ conn[c] = "closed" /\ c \notin connected_clients

\* C7: the close of a connection and the exit of its receive loop leave the
\* registration and the receive loop of every other client, the child's
\* stdin and both relay tasks as they were.
C7_CloseAffectsOnlyItsClient ==
    [][\A c \in Clients :
          \/ conn[c] = "open" /\ conn'[c] = "closed"
          \/ hpc[c] # "done" /\ hpc'[c] = "done"
          => /\ connected_clients' \ {c} = connected_clients \ {c}
             /\ \A d \in Clients \ {c} : hpc'[d] = hpc[d] /\ conn'[d] = conn[d]
             /\ process' = process
             /\ stdin' = stdin
             /\ rpc' = rpc]_vars

\* one client has closed and left while another stays registered in its
\* loop and both relays run
C7_Witness ==
    \E c, d \in Clients :
        /\ c # d
        /\ conn[c] = "closed" /\ hpc[c] = "done"
        /\ d \in connected_clients /\ hpc[d] = "recv"
        /\ \A s \in Streams : rpc[s] = "reading"

\* inbound lines the interpreter must reject: no sentinel, an argument that
\* does not parse, an unknown name, a creeper count above the maximum
RejectedLines == {M_hello, M_badarg, M_bogus, M_over}

IsErrorSent(c) ==
    /\ Len(replies'[c]) = Len(replies[c]) + 1
    /\ replies'[c][Len(replies'[c])].kind = "error"

\* C8: a rejected inbound line writes nothing to the child's stdin, starts no
\* batch, and the client that sent it is sent an error message.
C8_RejectedLineHasNoEffect ==
    /\ [](\A c \in Clients :
             frame[c].data \in RejectedLines =>
                 hpc[c] \in {"reply_try", "reply_handler"} /\ commands[c] = <<>>)
    /\ [][\A c \in Clients :
            frame[c] = NoFrame /\ frame'[c].data \in RejectedLines =>
                /\ stdin' = stdin
                /\ batches'[c] = batches[c]
                /\ IsErrorSent(c)]_vars

\* a creeper request above the maximum has been answered with an error and
\* nothing has reached stdin
C8_Witness ==
    \E c \in Clients :
        /\ frame[c].data = M_over
        /\ replies[c] # <<>>
        /\ replies[c][Len(replies[c])].kind = "error"
        /\ stdin = <<>>

\* inbound lines that expand to a batch
AcceptedLines == {M_max, M_default, M_chaos}

\* C9: while the child is not running nothing is appended to stdin and no
\* acknowledgment is sent, and every batch submitted then is answered with an
\* error: each submit after the child's exit fails alike.
C9_UnavailableProcessFails ==
    [][process # "running" =>
          /\ stdin' = stdin
          /\ \A c \in Clients :
                /\ \A i \in (Len(replies[c]) + 1)..Len(replies'[c]) :
                       replies'[c][i].kind = "error"
                /\ frame[c] = NoFrame /\ frame'[c].data \in AcceptedLines =>
                       IsErrorSent(c) /\ hpc'[c] = "reply_try"]_vars

\* a batch was submitted after the child's exit and answered with an error
C9_Witness ==
    \E c \in Clients :
        /\ process = "exited"
        /\ frame[c].data \in AcceptedLines
        /\ hpc[c] = "reply_try"
        /\ replies[c] = <<ErrorReply("Failed to send command")>>
        /\ stdin = <<>>

\* C10: a batch handed to send_command has at most 100 instructions; a
\* creeper count of 101 is answered with the limit error and yields no
\* instruction; a count of exactly 100 is accepted as a batch of 100.
C10_BatchAtMostMax ==
    /\ [](\A c \in Clients : Len(commands[c]) <= 100)
    /\ [][\A c \in Clients :
            /\ frame[c] = NoFrame /\ frame'[c].data = M_over =>
                  /\ commands'[c] = <<>>
                  /\ stdin' = stdin
                  /\ IsErrorSent(c)
                  /\ replies'[c][Len(replies'[c])].text = "Maximum creepers allowed"
                  /\ replies'[c][Len(replies'[c])].n = <<100>>
            /\ frame[c] = NoFrame /\ frame'[c].data = M_max
                  /\ process = "running" =>
                  /\ Len(commands'[c]) = 100
                  /\ hpc'[c] = "ack"
                  /\ Len(stdin') = Len(stdin) + 1]_vars

\* a batch of exactly 100 instructions has been written to stdin
C10_Witness ==
    \E c \in Clients :
        /\ frame[c].data = M_max
        /\ Len(commands[c]) = 100
        /\ next[c] = 101
        /\ Len(stdin) = 100

\* C11: a creeper request without a count yields exactly 4 instructions, and
\* one with an accepted count c (every c from 1 to 100 is accepted) yields
\* exactly c instructions, instruction i being the summon at point i of
\* get_circle_points(c), which has exactly c points.
C11_CreeperYieldsCountInstructions ==
    (ret.stage = "dispatched" /\ ret.parsed.ok
        /\ ret.parsed.command = W_creeper) =>
        LET n == IF ret.parsed.count = <<>> THEN 4 ELSE ret.parsed.count[1]
            cmds == ret.outcome.commands
        IN  /\ n \in 1..100 => ret.outcome.tag = "batch"
            /\ ret.outcome.tag = "batch" =>
                  /\ Len(cmds) = n
                  /\ Len(get_circle_points(n)) = n
                  /\ \A i \in 1..n :
                        /\ cmds[i].op = "summon creeper"
                        /\ cmds[i].pt = get_circle_points(n)[i]

\* the message "#creeper" has been dispatched to a batch of 4 instructions
C11_Witness ==
    /\ ret.stage = "dispatched"
    /\ call.message = M_default
    /\ ret.parsed.count = <<>>
    /\ Len(ret.outcome.commands) = 4

\* C12: when stdout reaches EOF its relay task ends, without error and only
\* once every line written before has been read; the step leaves the stderr
\* relay, every connection, registration and receive loop as they were, and
\* afterwards the stderr relay still reads the lines written to stderr.
C12_StdoutEOFEndsOnlyItsRelay ==
    /\ [](rpc["OUT"] = "ended" => eof["OUT"] /\ nread["OUT"] = nwritten["OUT"])
    /\ [](rpc["OUT"] = "ended" /\ rpc["ERR"] = "reading"
             /\ nread["ERR"] < nwritten["ERR"] => ENABLED ReadLine("ERR"))
    /\ [][rpc["OUT"] = "reading" /\ eof["OUT"]
             /\ nread["OUT"] = nwritten["OUT"] /\ rpc'["OUT"] # "reading" =>
                rpc'["OUT"] = "ended"]_vars
    /\ [][rpc["OUT"] # "ended" /\ rpc'["OUT"] = "ended" =>
            /\ rpc'["ERR"] = rpc["ERR"]
            /\ nread'["ERR"] = nread["ERR"]
            /\ pending'["ERR"] = pending["ERR"]
            /\ message'["ERR"] = message["ERR"]
            /\ connected_clients' = connected_clients
            /\ conn' = conn
            /\ hpc' = hpc
            /\ relayed' = relayed
            /\ replies' = replies]_vars

\* stdout has ended while the child runs, and the stderr relay is
\* broadcasting a line to a registered client
C12_Witness ==
    /\ rpc["OUT"] = "ended"
    /\ process = "running"
    /\ rpc["ERR"] = "gather"
    /\ message["ERR"] = Expected("ERR")
    /\ \E c \in connected_clients : c \in pending["ERR"] /\ hpc[c] = "recv"

\* the tokens of a message after its sentinel
Tokens(msg) == Split(Strip(DropFirst(msg)))

\* C13: parse_command reports "Invalid command format" only for a message
\* with no token after the sentinel, and reports an invalid argument for any
\* other message it rejects; the error of "#creeper abc" is the invalid
\* argument one.
C13_ErrorKindsDistinguished ==
    /\ ret.stage \in {"parsed", "dispatched"} /\ ~ret.parsed.ok =>
          IF Tokens(call.message) = <<>>
          THEN ret.parsed.err = "Invalid command format"
          ELSE ret.parsed.err = "Invalid argument"
    /\ ret.stage = "dispatched" /\ call.message = M_badarg =>
          ret.outcome.reply.text = "Invalid argument"

\* C14: every command parse_command returns has a non-empty name and, when
\* it has a count, a count of at least 0.
C14_ParsedCountNonNegative ==
    ret.stage \in {"parsed", "dispatched"} /\ ret.parsed.ok =>
        /\ ret.parsed.command # <<>>
        /\ ret.parsed.count # <<>> => ret.parsed.count[1] >= 0

C16_BatchAtomic ==
    [][\A c \in Clients :
          /\ hpc[c] = "ack"
          /\ next[c] <= Len(commands[c])
          /\ process = "running"
          => hpc'[c] = "ack" /\ commands'[c] = commands[c]]_vars

\* C17: the dispatch never calls get_circle_points with n < 1: no message is
\* answered with the error get_circle_points raises for such an n, a creeper
\* count below 1 being rejected by the validation before.
C17_PointsNeverReachedBelowOne ==
    ret.stage = "dispatched" =>
        ret.outcome.reply # ErrorReply("Number of points must be positive")

\* the last message handed to c.send by the handler of c
LastReply(r, c) == r[c][Len(r[c])]

\* C18: when the write of an instruction fails, nothing is written for it or
\* for the instructions after it, the batch is dropped without a retry, the
\* client is sent exactly one error message, and the step leaves the server,
\* both relay tasks and every other client as they were; nothing reaches
\* stdin once the child has exited.
C18_WriteFailureEndsBatch ==
    /\ [][process # "running" => stdin' = stdin]_vars
    /\ [][\A c \in Clients :
            /\ hpc'[c] = "reply_try"
            /\ replies'[c] # replies[c]
            /\ LastReply(replies', c) = ErrorReply("Failed to send command")
            => /\ process = "exited"
               /\ stdin' = stdin
               /\ commands'[c] = <<>>
               /\ replies'[c] =
                     Append(replies[c], ErrorReply("Failed to send command"))
               /\ mainpc' = mainpc
               /\ rpc' = rpc
               /\ connected_clients' = connected_clients
               /\ conn' = conn
               /\ \A d \in Clients \ {c} :
                     /\ hpc'[d] = hpc[d]
                     /\ commands'[d] = commands[d]
                     /\ replies'[d] = replies[d]]_vars

\* the child exited after the first instruction of a batch of two was
\* written: the second write failed, the client has been sent the one error
\* and another client is still in its receive loop
C18_Witness ==
    \E c \in Clients :
        /\ frame[c].data = M_chaos
        /\ hpc[c] = "reply_try"
        /\ process = "exited"
        /\ Len(stdin) = 1 /\ stdin[1].by = c /\ stdin[1].idx = 1
        /\ replies[c] = <<AckReply(stdin[1].text),
                          ErrorReply("Failed to send command")>>
        /\ \E d \in connected_clients \ {c} : hpc[d] = "recv"

\* C19: no step of a relay or of its broadcast changes connected_clients,
\* also when a send of the broadcast raised; a handle leaves the set only in
\* the step in which its own handler exits.
C19_BroadcastKeepsRegistry ==
    /\ [][\A s \in Streams :
            <<rpc[s], nread[s], pending[s], failed[s]>>'
                # <<rpc[s], nread[s], pending[s], failed[s]>>
            => connected_clients' = connected_clients]_vars
    /\ [][relayed' # relayed => connected_clients' = connected_clients]_vars
    /\ [][\A c \in Clients :
            c \in connected_clients /\ c \notin connected_clients' =>
                hpc[c] # "done" /\ hpc'[c] = "done"]_vars

\* the send of a broadcast to a closed client has raised and the client,
\* whose handler has not exited yet, is still registered
C19_Witness ==
    \E s \in Streams : \E c \in failed[s] :
        /\ rpc[s] = "gather"
        /\ conn[c] = "closed"
        /\ hpc[c] = "recv"
        /\ c \in connected_clients

\* C20: taken stream by stream, a client is sent the lines of a stream in
\* the order they were read: the relay reads line k+1 only when the broadcast
\* of line k has returned, and each delivery is of the line last read from
\* its stream.  Deliveries of different streams are not ordered.
C20_PerStreamOrder ==
    /\ [](\A c \in Clients : \A i, j \in 1..Len(relayed[c]) :
             i < j /\ relayed[c][i].stream = relayed[c][j].stream =>
                 relayed[c][i].k < relayed[c][j].k)
    /\ [][\A s \in Streams :
            nread'[s] # nread[s] =>
                /\ nread'[s] = nread[s] + 1
                /\ rpc[s] = "reading"
                /\ pending[s] = {}]_vars
    /\ [][\A c \in Clients :
            relayed'[c] # relayed[c] =>
                \E s \in Streams :
                    /\ rpc[s] = "gather"
                    /\ c \in pending[s]
                    /\ relayed'[c] =
                          Append(relayed[c],
                                 Delivery(s, nread[s], message[s]))]_vars

\* a client has been sent the first and then the second line of one stream
C20_Witness ==
    \E c \in Clients : \E s \in Streams :
        /\ Len(relayed[c]) = 2
        /\ relayed[c][1] = Delivery(s, 1, Expected(s))
        /\ relayed[c][2] = Delivery(s, 2, Expected(s))

====
